---- MODULE Spec2Model ----
(***************************************************************************)
(* PaperLink: the code format authority (lib/code-generator.ts), the OCR     *)
(* correction matcher (lib/fuzzy-match.ts: generateCandidates,              *)
(* editDistance, findBestMatch), the link store with the shorten and        *)
(* redirect routes (lib/db.ts, api/shorten, r/[code]) and the scanner       *)
(* pages (app/scan/page.tsx).                                               *)
(*                                                                          *)
(* A string is a sequence of characters; a character is a one-character     *)
(* TLA+ string.  SharpS stands for the single code unit U+00DF, whose       *)
(* JavaScript toUpperCase() is the two-character string "SS".               *)
(***************************************************************************)
EXTENDS Integers, Sequences, FiniteSets, TLC

VARIABLES pc, rawCode, candidates, ocrResult, validCodes, maxDistance,
          result, distanceCalls, s1, s2, distance, code, isValid, text,
          matches,
          supabase, links, memoryIdCounter, shorten, redirect,
          status, scanIntervalRef, isProcessingRef, detectedUrl, recognizing,
          resolving, redirectTimers, restartTimers, href, workerRef,
          manualCodeChars, fullCode

vars == <<pc, rawCode, candidates, ocrResult, validCodes, maxDistance,
          result, distanceCalls, s1, s2, distance, code, isValid, text,
          matches,
          supabase, links, memoryIdCounter, shorten, redirect,
          status, scanIntervalRef, isProcessingRef, detectedUrl, recognizing,
          resolving, redirectTimers, restartTimers, href, workerRef,
          manualCodeChars, fullCode>>

candVars == <<rawCode, candidates>>
matchVars == <<ocrResult, validCodes, maxDistance, result, distanceCalls>>
distVars == <<s1, s2, distance>>
\* the variables of the calls into lib/code-generator.ts
genVars == <<code, isValid, text, matches>>
libVars == <<candVars, matchVars, distVars, genVars>>
\* the store of lib/db.ts and the requests the server is handling
serverVars == <<supabase, links, memoryIdCounter, shorten, redirect>>
\* the state of the interval-scanning scanner page
scannerVars == <<status, scanIntervalRef, isProcessingRef, detectedUrl,
                 recognizing, resolving, redirectTimers, restartTimers, href,
                 workerRef>>
\* the state of the keypad-style scanner page
keypadVars == <<manualCodeChars, fullCode>>
appVars == <<serverVars, scannerVars, keypadVars>>

(***************************************************************************)
(* Bounds of the model.                                                     *)
(***************************************************************************)
MaxRawLen == 3
MaxOcrLen == 2
MaxCodes == 2
MaxBudget == 2
MaxStrLen == 3
RandomScale == 58
MaxShorten == 2
MaxRedirect == 2
MaxPending == 2

(***************************************************************************)
(* Generic helpers on sequences.                                            *)
(***************************************************************************)
Range(s) == {s[k] : k \in 1..Len(s)}

RECURSIVE Flatten(_)
Flatten(ss) == IF ss = <<>> THEN <<>> ELSE Head(ss) \o Flatten(Tail(ss))

StringsUpTo(chars, n) == UNION {[1..k -> chars] : k \in 0..n}

Min(a, b) == IF a < b THEN a ELSE b

(***************************************************************************)
(* Characters and String.prototype.toUpperCase / trim.                      *)
(***************************************************************************)
SharpS == "sz"

LowerLetters == <<"a","b","c","d","e","f","g","h","i","j","k","l","m",
                  "n","o","p","q","r","s","t","u","v","w","x","y","z">>
UpperLetters == <<"A","B","C","D","E","F","G","H","I","J","K","L","M",
                  "N","O","P","Q","R","S","T","U","V","W","X","Y","Z">>
Digits == <<"0","1","2","3","4","5","6","7","8","9">>

UpperChar(c) ==
    IF c = SharpS THEN <<"S", "S">>
    ELSE IF c \in Range(LowerLetters)
         THEN <<UpperLetters[CHOOSE k \in 1..26 : LowerLetters[k] = c]>>
         ELSE <<c>>

ToUpperCase(s) == Flatten([k \in 1..Len(s) |-> UpperChar(s[k])])

IsWhitespace(c) == c \in {" ", "\t", "\n"}

RECURSIVE TrimStart(_)
TrimStart(s) ==
    IF s # <<>> /\ IsWhitespace(Head(s)) THEN TrimStart(Tail(s)) ELSE s

RECURSIVE TrimEnd(_)
TrimEnd(s) ==
    IF s # <<>> /\ IsWhitespace(s[Len(s)])
    THEN TrimEnd(SubSeq(s, 1, Len(s) - 1)) ELSE s

Trim(s) == TrimEnd(TrimStart(s))

(***************************************************************************)
(* lib/code-generator.ts                                                    *)
(***************************************************************************)
CHARS == <<"2","3","4","5","6","7","8","9","A","C","D","E","F","G","H",
           "J","K","L","M","N","P","Q","R","T","U","V","W","X","Y">>

NormalizeCode(c) == Trim(ToUpperCase(c))

\* Math.floor(Math.random() * CHARS.length); Math.random() yields
\* r / RandomScale for some r in 0..RandomScale-1, a value of [0, 1)
RandomIndex_round(r) == (2 * r * Len(CHARS) + RandomScale) \div (2 * RandomScale)

RandomIndex(r) == (r * Len(CHARS)) \div RandomScale

\* code += CHARS[index]: an index past the end reads undefined, which
\* string concatenation spells out
CharAt(index) ==
    IF index < Len(CHARS) THEN <<CHARS[index + 1]>>
    ELSE <<"u","n","d","e","f","i","n","e","d">>

\* the loop of generateCode from iteration i (0-based), rnd the values
\* Math.random() returns in the six iterations
RECURSIVE GenerateLoop(_, _, _)
GenerateLoop(rnd, i, acc) ==
    IF i >= 6 THEN acc
    ELSE GenerateLoop(rnd, i + 1,
            acc \o CharAt(RandomIndex(rnd[i + 1]))
                \o (IF i = 2 THEN <<"-">> ELSE <<>>))

GenerateCode(rnd) == <<"P", "L", "-">> \o GenerateLoop(rnd, 0, <<>>)

\* the character class of the pattern of isValidCode
ValidPatternClass ==
    {"2","3","4","5","6","7","8","9","A","C","D","E","F","G","H",
     "J","K","L","M","N","P","Q","R","T","U","V","W","X","Y"}

\* the pattern without its anchors ^ and $
IsValidCode_unanchored(c) ==
    LET u == ToUpperCase(c) IN
    \E p \in 0..(Len(u) - 10) :
        /\ u[p + 1] = "P" /\ u[p + 2] = "L" /\ u[p + 3] = "-" /\ u[p + 7] = "-"
        /\ \A k \in {4, 5, 6, 8, 9, 10} : u[p + k] \in ValidPatternClass

\* /^PL-[...]{3}-[...]{3}$/.test(code.toUpperCase())
IsValidCode(c) ==
    LET u == ToUpperCase(c) IN
    /\ Len(u) = 10
    /\ u[1] = "P" /\ u[2] = "L" /\ u[3] = "-" /\ u[7] = "-"
    /\ \A k \in {4, 5, 6, 8, 9, 10} : u[k] \in ValidPatternClass

\* the character class of the pattern of extractCodes
ExtractPatternClass ==
    {"2","3","4","5","6","7","8","9","A","C","D","E","F","G","H",
     "J","K","L","M","N","P","Q","R","T","U","V","W","X","Y"}

\* flag i: a character is compared by its one-character uppercase form
Canonicalize(c) == IF Len(UpperChar(c)) = 1 THEN UpperChar(c)[1] ELSE c

\* the ten pattern characters fit into u from position p (1-based)
MatchFits_strict(u, p) == p + 9 < Len(u)

MatchFits(u, p) == p + 9 <= Len(u)

\* /PL-[...]{3}-[...]{3}/i matches u at position p
MatchesAt(u, p) ==
    /\ MatchFits(u, p)
    /\ Canonicalize(u[p]) = "P" /\ Canonicalize(u[p + 1]) = "L"
    /\ u[p + 2] = "-" /\ u[p + 6] = "-"
    /\ \A k \in {3, 4, 5, 7, 8, 9} : Canonicalize(u[p + k]) \in ExtractPatternClass

\* String.prototype.match with flag g: every match, the search resuming
\* at the end of the previous match
RECURSIVE MatchAll(_, _, _)
MatchAll(u, p, found) ==
    IF p > Len(u) THEN found
    ELSE IF MatchesAt(u, p)
         THEN MatchAll(u, p + 10, Append(found, SubSeq(u, p, p + 9)))
         ELSE MatchAll(u, p + 1, found)

\* [...new Set(matches)]
UniqueInOrder_keepAll(seq) == seq

RECURSIVE SetFrom(_, _)
SetFrom(seq, set) ==
    IF seq = <<>> THEN set
    ELSE SetFrom(Tail(seq),
                 IF Head(seq) \in Range(set) THEN set ELSE Append(set, Head(seq)))

UniqueInOrder(seq) == SetFrom(seq, <<>>)

ExtractCodes(txt) == UniqueInOrder(MatchAll(ToUpperCase(txt), 1, <<>>))

(***************************************************************************)
(* The copies of the alphabet outside lib/code-generator.ts: the scanner    *)
(* page and the browser extension's background service worker.              *)
(***************************************************************************)
\* the character class of codePattern in app/scan/page.tsx
ScanPatternClass ==
    {"2","3","4","5","6","7","8","9","A","C","D","E","F","G","H",
     "J","K","L","M","N","P","Q","R","T","U","V","W","X","Y"}

\* validChars of the manual entry in app/scan/page.tsx
ValidChars == <<"2","3","4","5","6","7","8","9","A","C","D","E","F","G","H",
                "J","K","L","M","N","P","Q","R","T","U","V","W","X","Y">>

\* chars of generateCode in the background service worker
BackgroundChars ==
    <<"A","B","C","D","E","F","G","H","J","K","L","M","N","P","Q","R",
      "S","T","U","V","W","X","Y","Z","2","3","4","5","6","7","8","9">>

\* chars.charAt(Math.floor(Math.random() * chars.length)); charAt past the
\* end is the empty string
BackgroundCharAt(r) ==
    LET index == (r * Len(BackgroundChars)) \div RandomScale IN
    IF index < Len(BackgroundChars) THEN <<BackgroundChars[index + 1]>>
    ELSE <<>>

\* generateCode of the background service worker: six characters, no
\* prefix and no hyphen
BackgroundGenerateCode(rnd) ==
    Flatten([i \in 1..6 |-> BackgroundCharAt(rnd[i])])

(***************************************************************************)
(* lib/fuzzy-match.ts                                                       *)
(***************************************************************************)
OCR_CORRECTIONS_long ==
    [k \in {"0","O","1","I","L","8","B","5","S","Z","2"} |->
        CASE k = "0" -> <<"Q", "D", "C">>
          [] k = "O" -> <<"Q", "D">>
          [] k = "1" -> <<"L", "T">>
          [] k = "I" -> <<"L", "T">>
          [] k = "L" -> <<"1", "I">>
          [] k = "8" -> <<"B", "R">>
          [] k = "B" -> <<"8", "R">>
          [] k = "5" -> <<"S", "F">>
          [] k = "S" -> <<"5", "F">>
          [] k = "Z" -> <<"2", "7">>
          [] k = "2" -> <<"Z", "7">>]

OCR_CORRECTIONS_selfKey ==
    [k \in {"0","O","1","I","L","8","B","5","S","Z","2"} |->
        CASE k = "0" -> <<"Q", "D">>
          [] k = "O" -> <<"Q", "D">>
          [] k = "1" -> <<"L", "T">>
          [] k = "I" -> <<"L", "T">>
          [] k = "L" -> <<"1", "I">>
          [] k = "8" -> <<"8", "R">>
          [] k = "B" -> <<"8", "R">>
          [] k = "5" -> <<"S", "F">>
          [] k = "S" -> <<"5", "F">>
          [] k = "Z" -> <<"2", "7">>
          [] k = "2" -> <<"Z", "7">>]

OCR_CORRECTIONS ==
    [k \in {"0","O","1","I","L","8","B","5","S","Z","2"} |->
        CASE k = "0" -> <<"Q", "D">>
          [] k = "O" -> <<"Q", "D">>
          [] k = "1" -> <<"L", "T">>
          [] k = "I" -> <<"L", "T">>
          [] k = "L" -> <<"1", "I">>
          [] k = "8" -> <<"B", "R">>
          [] k = "B" -> <<"8", "R">>
          [] k = "5" -> <<"S", "F">>
          [] k = "S" -> <<"5", "F">>
          [] k = "Z" -> <<"2", "7">>
          [] k = "2" -> <<"Z", "7">>]

\* the character class [A-Z0-9-] of the replace() pattern
IsKeptChar_noHyphen(c) == c \in Range(UpperLetters) \cup Range(Digits)

IsKeptChar(c) == c \in Range(UpperLetters) \cup Range(Digits) \cup {"-"}

\* rawCode.toUpperCase().replace(/[^A-Z0-9-]/g, '')
Preprocess(raw) == SelectSeq(ToUpperCase(raw), IsKeptChar)

\* CHARS.includes(correction), correction a single character
IsAlphabetMember_always(c) == TRUE

IsAlphabetMember(c) == c \in Range(CHARS)

\* Set.add on an insertion-ordered Set
SetAdd_front(set, x) == IF x \in Range(set) THEN set ELSE <<x>> \o set

SetAdd(set, x) == IF x \in Range(set) THEN set ELSE Append(set, x)

ReplaceAt(s, i, c) == SubSeq(s, 1, i - 1) \o <<c>> \o SubSeq(s, i + 1, Len(s))

\* the inner loop over corrections, from index j of the list
RECURSIVE AddCorrections(_, _, _, _, _)
AddCorrections(normalized, i, corrections, j, set) ==
    IF j > Len(corrections) THEN set
    ELSE AddCorrections(normalized, i, corrections, j + 1,
            IF IsAlphabetMember(corrections[j])
            THEN SetAdd(set, ReplaceAt(normalized, i, corrections[j]))
            ELSE set)

\* the outer loop over positions, from position i (1-based)
RECURSIVE CorrectionLoop(_, _, _)
CorrectionLoop(normalized, i, set) ==
    IF i > Len(normalized) THEN set
    ELSE LET char == normalized[i] IN
         CorrectionLoop(normalized, i + 1,
            IF char = "-" THEN set
            ELSE IF char \in DOMAIN OCR_CORRECTIONS
                 THEN AddCorrections(normalized, i, OCR_CORRECTIONS[char], 1, set)
                 ELSE set)

GenerateCandidates(raw) ==
    LET normalized == Preprocess(raw) IN
    CorrectionLoop(normalized, 1, SetAdd(<<>>, normalized))

\* Math.min of the three neighbours, line 64
MinNeighbour_noSubstitution(del, ins, sub) == Min(del, ins)

MinNeighbour(del, ins, sub) == Min(del, Min(ins, sub))

\* the (m+1) x (n+1) table of editDistance, filled as the loops fill it:
\* a row dp[i] is the sequence of dp[i][0..n], dp[i][j] at index j + 1

\* the inner loop, lines 60-66: row i from column j on (row holds the j
\* columns 0..j-1), prev the row i - 1
RECURSIVE EditRow(_, _, _, _, _, _)
EditRow(a, b, i, prev, j, row) ==
    IF Len(row) > Len(b) THEN row
    ELSE EditRow(a, b, i, prev, j + 1,
            Append(row,
                IF a[i] = b[j] THEN prev[j]
                ELSE 1 + MinNeighbour(prev[j + 1], row[j], prev[j])))

\* the outer loop, lines 59-67: the last row, from row i on
RECURSIVE EditTable(_, _, _, _)
EditTable(a, b, i, prev) ==
    IF i > Len(a) THEN prev
    ELSE EditTable(a, b, i + 1, EditRow(a, b, i, prev, 1, <<i>>))

EditDistance(a, b) ==
    EditTable(a, b, 1, [j \in 1..(Len(b) + 1) |-> j - 1])[Len(b) + 1]

\* a result of findBestMatch: null, or a string
Null == <<>>
Some(str) == <<str>>

\* the exact-match pass, lines 83-87: the first candidate, in candidate
\* order, that validCodes includes; Null when the loop falls through
RECURSIVE ExactPass_byValidOrder(_, _, _)
ExactPass_byValidOrder(cands, valid, c) ==
    IF c > Len(valid) THEN Null
    ELSE IF valid[c] \in Range(cands) THEN Some(valid[c])
    ELSE ExactPass_byValidOrder(cands, valid, c + 1)

RECURSIVE ExactPass(_, _, _)
ExactPass(cands, valid, c) ==
    IF c > Len(cands) THEN Null
    ELSE IF cands[c] \in Range(valid) THEN Some(cands[c])
    ELSE ExactPass(cands, valid, c + 1)

\* distance < bestDistance, line 96
IsCloser_orEqual(d, bestDistance) == d <= bestDistance

IsCloser(d, bestDistance) == d < bestDistance

\* the inner loop over candidates, lines 94-100; best is the loop state
\* bestMatch, bestDistance and the number of editDistance calls made
RECURSIVE FuzzyInner(_, _, _, _)
FuzzyInner(validCode, cands, c, best) ==
    IF c > Len(cands) THEN best
    ELSE LET d == EditDistance(cands[c], validCode) IN
         FuzzyInner(validCode, cands, c + 1,
            IF IsCloser(d, best.bestDistance)
            THEN [bestMatch |-> Some(validCode), bestDistance |-> d,
                  calls |-> best.calls + 1]
            ELSE [best EXCEPT !.calls = @ + 1])

\* the outer loop over validCodes, lines 93-101
RECURSIVE FuzzyOuter(_, _, _, _)
FuzzyOuter(valid, v, cands, best) ==
    IF v > Len(valid) THEN best
    ELSE FuzzyOuter(valid, v + 1, cands, FuzzyInner(valid[v], cands, 1, best))

\* bestDistance <= maxDistance, line 103
WithinBudget_strict(bestDistance, budget) == bestDistance < budget

WithinBudget_exactly(bestDistance, budget) == bestDistance = budget

WithinBudget(bestDistance, budget) == bestDistance <= budget

\* findBestMatch with the default budget 2 in place of its parameter
FindBestMatch_defaultBudget(ocr, valid, budget) ==
    LET cands == GenerateCandidates(ocr)
        exact == ExactPass(cands, valid, 1)
    IN IF exact # Null THEN [match |-> exact, calls |-> 0]
       ELSE LET best == FuzzyOuter(valid, 1, cands,
                            [bestMatch |-> Null, bestDistance |-> 2 + 1,
                             calls |-> 0])
            IN [match |-> IF WithinBudget(best.bestDistance, 2)
                          THEN best.bestMatch ELSE Null,
                calls |-> best.calls]

\* findBestMatch falling back on the first candidate when nothing matches
FindBestMatch_fallback(ocr, valid, budget) ==
    LET cands == GenerateCandidates(ocr)
        exact == ExactPass(cands, valid, 1)
    IN IF exact # Null THEN [match |-> exact, calls |-> 0]
       ELSE LET best == FuzzyOuter(valid, 1, cands,
                            [bestMatch |-> Some(cands[1]),
                             bestDistance |-> budget + 1, calls |-> 0])
            IN [match |-> best.bestMatch, calls |-> best.calls]

\* findBestMatch: its return value and the number of editDistance calls
FindBestMatch(ocr, valid, budget) ==
    LET cands == GenerateCandidates(ocr)
        exact == ExactPass(cands, valid, 1)
    IN IF exact # Null THEN [match |-> exact, calls |-> 0]
       ELSE LET best == FuzzyOuter(valid, 1, cands,
                            [bestMatch |-> Null, bestDistance |-> budget + 1,
                             calls |-> 0])
            IN [match |-> IF WithinBudget(best.bestDistance, budget)
                          THEN best.bestMatch ELSE Null,
                calls |-> best.calls]

(***************************************************************************)
(* State machine: one call of generateCandidates on an arbitrary input.     *)
(***************************************************************************)
RawChars == {"0", "b", "L", "8", "-", " ", ".", "A", SharpS}

CandIdle == rawCode = <<>> /\ candidates = <<>>
MatchIdle == /\ ocrResult = <<>> /\ validCodes = <<>> /\ maxDistance = 0
             /\ result = <<>> /\ distanceCalls = 0
DistIdle == s1 = <<>> /\ s2 = <<>> /\ distance = 0
GenIdle == code = <<>> /\ isValid = FALSE /\ text = <<>> /\ matches = <<>>
ServerIdle ==
    /\ supabase = FALSE /\ links = <<>> /\ memoryIdCounter = 1
    /\ shorten = <<>> /\ redirect = <<>>
ScannerIdle ==
    /\ status = "idle" /\ scanIntervalRef = FALSE /\ isProcessingRef = FALSE
    /\ detectedUrl = "" /\ recognizing = 0 /\ resolving = 0
    /\ redirectTimers = <<>> /\ restartTimers = 0 /\ href = Null
    /\ workerRef = FALSE
KeypadIdle == manualCodeChars = <<>> /\ fullCode = <<>>
AppIdle == ServerIdle /\ ScannerIdle /\ KeypadIdle

InitCandidates ==
    /\ pc = "generateCandidates"
    /\ rawCode \in StringsUpTo(RawChars, MaxRawLen)
    /\ candidates = <<>>
    /\ MatchIdle /\ DistIdle /\ GenIdle
    /\ AppIdle

CallGenerateCandidates ==
    /\ pc = "generateCandidates"
    /\ candidates' = GenerateCandidates(rawCode)
    /\ pc' = "candidates"
    /\ UNCHANGED <<rawCode, matchVars, distVars, genVars>>
    /\ UNCHANGED appVars

NextCandidates == CallGenerateCandidates

SpecCandidates == InitCandidates /\ [][NextCandidates]_vars

(***************************************************************************)
(* State machine: one call of findBestMatch.                                *)
(***************************************************************************)
OcrChars == {"0", "a", "Q", "."}

KnownPool == { <<"Q","A">>, <<"D","A">>, <<"q","a">>, <<"Q">>,
               <<"A","A","D">> }

InitMatch ==
    /\ pc = "findBestMatch"
    /\ ocrResult \in StringsUpTo(OcrChars, MaxOcrLen)
    /\ validCodes \in StringsUpTo(KnownPool, MaxCodes)
    /\ maxDistance \in 0..MaxBudget
    /\ result = Null
    /\ distanceCalls = 0
    /\ CandIdle /\ DistIdle /\ GenIdle
    /\ AppIdle

CallFindBestMatch ==
    /\ pc = "findBestMatch"
    /\ LET r == FindBestMatch(ocrResult, validCodes, maxDistance) IN
          /\ result' = r.match
          /\ distanceCalls' = r.calls
    /\ pc' = "matched"
    /\ UNCHANGED <<ocrResult, validCodes, maxDistance, candVars, distVars,
                   genVars>>
    /\ UNCHANGED appVars

NextMatch == CallFindBestMatch

SpecMatch == InitMatch /\ [][NextMatch]_vars

(***************************************************************************)
(* State machine: one call of findBestMatch against well-formed codes, on   *)
(* noise, on a code cut short and on a code with characters after it.       *)
(***************************************************************************)
FormatPool ==
    { <<"P","L","-","Q","A","9","-","K","2","M">>,
      <<"P","L","-","D","A","7","-","K","3","M">>,
      <<"P","L","-","Q","A","9","-","K","2","N">> }

GarbageChars == {".", "a"}

GarbageInputs ==
    StringsUpTo(GarbageChars, MaxOcrLen)
    \cup {SubSeq(c, 1, Len(c) - k) : <<c, k>> \in FormatPool \X (0..(MaxBudget + 1))}
    \cup {c \o [k \in 1..n |-> "X"] : <<c, n>> \in FormatPool \X (1..(MaxBudget + 1))}

InitGarbage ==
    /\ pc = "findBestMatch"
    /\ ocrResult \in GarbageInputs
    /\ validCodes \in StringsUpTo(FormatPool, MaxCodes)
    /\ maxDistance \in 0..MaxBudget
    /\ result = Null
    /\ distanceCalls = 0
    /\ CandIdle /\ DistIdle /\ GenIdle
    /\ AppIdle

SpecGarbage == InitGarbage /\ [][NextMatch]_vars

(***************************************************************************)
(* State machine: one call of editDistance.                                 *)
(***************************************************************************)
DistChars == {"A", "Q", "-"}

InitDistance ==
    /\ pc = "editDistance"
    /\ s1 \in StringsUpTo(DistChars, MaxStrLen)
    /\ s2 \in StringsUpTo(DistChars, MaxStrLen)
    /\ distance = 0
    /\ CandIdle /\ MatchIdle /\ GenIdle
    /\ AppIdle

CallEditDistance ==
    /\ pc = "editDistance"
    /\ distance' = EditDistance(s1, s2)
    /\ pc' = "distance"
    /\ UNCHANGED <<s1, s2, candVars, matchVars, genVars>>
    /\ UNCHANGED appVars

NextDistance == CallEditDistance

SpecDistance == InitDistance /\ [][NextDistance]_vars

(***************************************************************************)
(* State machine: one call of generateCode.  The six random values are      *)
(* the two extremes of [0, 1) everywhere except at one position, which      *)
(* takes every value.                                                       *)
(***************************************************************************)
RandomValues == 0..(RandomScale - 1)

RandomRuns ==
    {[base EXCEPT ![p] = r] :
        <<base, p, r>> \in [1..6 -> {0, RandomScale - 1}] \X (1..6) \X RandomValues}

InitGenerate ==
    /\ pc = "generateCode"
    /\ code = <<>>
    /\ isValid = FALSE /\ text = <<>> /\ matches = <<>>
    /\ CandIdle /\ MatchIdle /\ DistIdle
    /\ AppIdle

CallGenerateCode ==
    /\ pc = "generateCode"
    /\ \E rnd \in RandomRuns : code' = GenerateCode(rnd)
    /\ pc' = "generated"
    /\ UNCHANGED <<isValid, text, matches, candVars, matchVars, distVars>>
    /\ UNCHANGED appVars

NextGenerate == CallGenerateCode

SpecGenerate == InitGenerate /\ [][NextGenerate]_vars

(***************************************************************************)
(* State machine: one call of isValidCode, on a code-like string with or    *)
(* without characters around it.                                            *)
(***************************************************************************)
MaxPad == 1

PadChars == {" ", "X"}

CodeLike ==
    {<<p, l, "-", a, "A", "9", h, "K", "2", b>> :
        <<p, l, a, h, b>> \in {"P", "p", "Q"} \X {"L", "l"}
                              \X {"A", "a", "0", "B"} \X {"-", "A"}
                              \X {"Y", "y", "O", "-"}}

ValidateInputs ==
    {pre \o body \o post :
        <<pre, body, post>> \in
            StringsUpTo(PadChars, MaxPad)
            \X (CodeLike \cup {SubSeq(c, 1, Len(c) - 1) : c \in CodeLike})
            \X StringsUpTo(PadChars, MaxPad)}

InitValidate ==
    /\ pc = "isValidCode"
    /\ code \in ValidateInputs
    /\ isValid = FALSE /\ text = <<>> /\ matches = <<>>
    /\ CandIdle /\ MatchIdle /\ DistIdle
    /\ AppIdle

CallIsValidCode ==
    /\ pc = "isValidCode"
    /\ isValid' = IsValidCode(code)
    /\ pc' = "validated"
    /\ UNCHANGED <<code, text, matches, candVars, matchVars, distVars>>
    /\ UNCHANGED appVars

NextValidate == CallIsValidCode

SpecValidate == InitValidate /\ [][NextValidate]_vars

(***************************************************************************)
(* State machine: one call of extractCodes, on a text put together from     *)
(* codes, parts of codes and noise.                                         *)
(***************************************************************************)
MaxPieces == 3

TextPieces ==
    { <<"P","L","-","A","A","A","-","C","C","C">>,
      <<"p","l","-","a","a","a","-","c","c","c">>,
      <<"P","L","-","A","2","Y","-","K","9","M">>,
      <<"P","L","-","A">>,
      <<"P","L","-","A","A","A","-","C","O">>,
      <<" ">>,
      <<"x">> }

InitExtract ==
    /\ pc = "extractCodes"
    /\ text \in {Flatten(ps) : ps \in StringsUpTo(TextPieces, MaxPieces)}
    /\ matches = <<>>
    /\ code = <<>> /\ isValid = FALSE
    /\ CandIdle /\ MatchIdle /\ DistIdle
    /\ AppIdle

CallExtractCodes ==
    /\ pc = "extractCodes"
    /\ matches' = ExtractCodes(text)
    /\ pc' = "extracted"
    /\ UNCHANGED <<code, isValid, text, candVars, matchVars, distVars>>
    /\ UNCHANGED appVars

NextExtract == CallExtractCodes

SpecExtract == InitExtract /\ [][NextExtract]_vars

(***************************************************************************)
(* State machine: one call of either code generator of the repository.      *)
(***************************************************************************)
InitBackground ==
    /\ pc = "background.generateCode"
    /\ code = <<>>
    /\ isValid = FALSE /\ text = <<>> /\ matches = <<>>
    /\ CandIdle /\ MatchIdle /\ DistIdle
    /\ AppIdle

CallBackgroundGenerateCode ==
    /\ pc = "background.generateCode"
    /\ \E rnd \in RandomRuns : code' = BackgroundGenerateCode(rnd)
    /\ pc' = "backgroundGenerated"
    /\ UNCHANGED <<isValid, text, matches, candVars, matchVars, distVars>>
    /\ UNCHANGED appVars

InitGenerators == InitGenerate \/ InitBackground

NextGenerators == CallGenerateCode \/ CallBackgroundGenerateCode

SpecGenerators == InitGenerators /\ [][NextGenerators]_vars

(***************************************************************************)
(* The server: lib/db.ts over the in-memory Map or the Supabase table      *)
(* 'links', POST /api/shorten, GET /r/[code] and the dashboard's delete.   *)
(* A request handler runs atomically from one await to the next; the read  *)
(* or write it awaits takes effect in the step that issues it.  Timestamps *)
(* (created_at, last_accessed) are left out.                                *)
(***************************************************************************)
\* const maxAttempts = 10
MaxAttempts == 10

\* maxDistance: number = 2
DefaultMaxDistance == 2

\* the draws of Math.random() behind the codes the server generates:
\* PL-AAA-AAA and PL-AAA-AAC
ServerRuns == { [p \in 1..6 |-> 16], [p \in 1..6 |-> IF p = 6 THEN 18 ELSE 16] }

ServerCodes == {GenerateCode(rnd) : rnd \in ServerRuns}

\* request bodies: url absent, url that new URL() rejects, two valid urls
ValidUrls == {"https://a.example/", "https://b.example/"}

BodyUrls == {"", "not a url"} \cup ValidUrls

\* userId absent ("" is falsy as undefined is) or one signed-in user
UserIds == {"", "u1"}

\* new URL(url) succeeds
IsUrl(url) == url \in ValidUrls

\* the position of shortCode in the store, 0 when absent
RECURSIVE IndexOfCode(_, _, _)
IndexOfCode(store, shortCode, k) ==
    IF k > Len(store) THEN 0
    ELSE IF store[k].short_code = shortCode THEN k
    ELSE IndexOfCode(store, shortCode, k + 1)

\* getLinkByCode: memoryLinks.get(shortCode), or select ... eq short_code
GetLinkByCode(store, shortCode) ==
    LET k == IndexOfCode(store, shortCode, 1) IN
    IF k = 0 THEN Null ELSE Some(store[k])

\* codeExists: link !== undefined
CodeExists(store, shortCode) == GetLinkByCode(store, shortCode) # Null

\* getLinkByUserAndUrl: Array.find over the Map's values in insertion
\* order; with Supabase .single(), which fails unless exactly one row matches
GetLinkByUserAndUrl(db, store, userId, url) ==
    LET hits == SelectSeq(store, LAMBDA l : l.original_url = url
                                         /\ l.user_id = userId)
    IN IF userId = "" THEN Null
       ELSE IF db THEN (IF Len(hits) = 1 THEN Some(hits[1]) ELSE Null)
       ELSE (IF hits = <<>> THEN Null ELSE Some(hits[1]))

\* getAllCodes
GetAllCodes(store) == [k \in 1..Len(store) |-> store[k].short_code]

\* the link createLink builds
NewLink(id, shortCode, url, userId) ==
    [id |-> id, short_code |-> shortCode, original_url |-> url,
     click_count |-> 0, user_id |-> userId]

\* memoryLinks.set(shortCode, link): a key already present keeps its place
\* and takes the new value
MapSet(store, link) ==
    LET k == IndexOfCode(store, link.short_code, 1) IN
    IF k = 0 THEN Append(store, link) ELSE [store EXCEPT ![k] = link]

\* insert into links: short_code is UNIQUE, a second row with the code fails
InsertFails(store, shortCode) == IndexOfCode(store, shortCode, 1) # 0

\* the new count written to every row
SetClickCount_everyRow(store, shortCode, n) ==
    [k \in 1..Len(store) |-> [store[k] EXCEPT !.click_count = n]]

\* click_count + 1 on the row of shortCode, if there is one
SetClickCount(store, shortCode, n) ==
    [k \in 1..Len(store) |->
        IF store[k].short_code = shortCode
        THEN [store[k] EXCEPT !.click_count = n] ELSE store[k]]

\* delete().eq('id', id)
DeleteById(store, id) == SelectSeq(store, LAMBDA l : l.id # id)

NoResponse == [status |-> 0, code |-> <<>>, isExisting |-> FALSE,
               error |-> ""]

NoShorten == [pc |-> "none", url |-> "", userId |-> "", shortCode |-> <<>>,
              attempts |-> 0, exists |-> FALSE, existingLink |-> Null,
              response |-> NoResponse]

\* recorded lists the short codes whose click_count the request has written
NoRedirect == [pc |-> "none", code |-> <<>>, link |-> Null,
               matchedCode |-> <<>>, allCodes |-> <<>>, clickCount |-> Null,
               recorded |-> <<>>, location |-> ""]

ShortenIds == 1..MaxShorten
RedirectIds == 1..MaxRedirect

InitServer ==
    /\ pc = "server"
    /\ supabase \in BOOLEAN
    /\ links = <<>>
    /\ memoryIdCounter = 1
    /\ shorten = [i \in ShortenIds |-> NoShorten]
    /\ redirect = [j \in RedirectIds |-> NoRedirect]
    /\ CandIdle /\ MatchIdle /\ DistIdle /\ GenIdle /\ ScannerIdle
    /\ KeypadIdle

\* let shortCode = generateCode(), or shortCode = generateCode() in the
\* loop, followed by the read of codeExists(shortCode)
GenerateAndCheck(i, n) ==
    \E c \in ServerCodes :
        shorten' = [shorten EXCEPT ![i].shortCode = c,
                                   ![i].attempts = n,
                                   ![i].exists = CodeExists(links, c),
                                   ![i].pc = "codeExists"]

\* POST arrives: the body is parsed and validated, then the first await.
\* Requests are numbered in the order they arrive.
ShortenStart(i) ==
    /\ pc = "server"
    /\ shorten[i].pc = "none"
    /\ \A h \in 1..(i - 1) : shorten[h].pc # "none"
    /\ \E url \in BodyUrls, userId \in UserIds :
          IF ~IsUrl(url)
          THEN shorten' = [shorten EXCEPT
                  ![i].pc = "done", ![i].url = url, ![i].userId = userId,
                  ![i].response = [NoResponse EXCEPT !.status = 400,
                       !.error = IF url = "" THEN "URL is required"
                                 ELSE "Invalid URL format"]]
          ELSE IF userId # ""
          THEN shorten' = [shorten EXCEPT
                  ![i].pc = "getLinkByUserAndUrl", ![i].url = url,
                  ![i].userId = userId,
                  ![i].existingLink =
                      GetLinkByUserAndUrl(supabase, links, userId, url)]
          ELSE \E c \in ServerCodes :
                  shorten' = [shorten EXCEPT
                      ![i].url = url, ![i].userId = userId,
                      ![i].shortCode = c, ![i].attempts = 0,
                      ![i].exists = CodeExists(links, c),
                      ![i].pc = "codeExists"]
    /\ UNCHANGED <<pc, supabase, links, memoryIdCounter, redirect, libVars,
                   scannerVars, keypadVars>>

\* the handler resumes from await getLinkByUserAndUrl
ShortenAfterDuplicateCheck(i) ==
    /\ pc = "server"
    /\ shorten[i].pc = "getLinkByUserAndUrl"
    /\ IF shorten[i].existingLink # Null
       THEN shorten' = [shorten EXCEPT
               ![i].pc = "done",
               ![i].response = [status |-> 200,
                   code |-> shorten[i].existingLink[1].short_code,
                   isExisting |-> TRUE, error |-> ""]]
       ELSE GenerateAndCheck(i, 0)
    /\ UNCHANGED <<pc, supabase, links, memoryIdCounter, redirect, libVars,
                   scannerVars, keypadVars>>

\* the handler resumes from await codeExists with a colliding code and
\* attempts left: the body of the while loop
ShortenRetry(i) ==
    /\ pc = "server"
    /\ shorten[i].pc = "codeExists"
    /\ shorten[i].exists /\ shorten[i].attempts < MaxAttempts
    /\ GenerateAndCheck(i, shorten[i].attempts + 1)
    /\ UNCHANGED <<pc, supabase, links, memoryIdCounter, redirect, libVars,
                   scannerVars, keypadVars>>

\* the loop is left with attempts >= maxAttempts
ShortenGiveUp(i) ==
    /\ pc = "server"
    /\ shorten[i].pc = "codeExists"
    /\ ~(shorten[i].exists /\ shorten[i].attempts < MaxAttempts)
    /\ shorten[i].attempts >= MaxAttempts
    /\ shorten' = [shorten EXCEPT
          ![i].pc = "done",
          ![i].response = [NoResponse EXCEPT !.status = 500,
                               !.error = "Failed to generate unique code"]]
    /\ UNCHANGED <<pc, supabase, links, memoryIdCounter, redirect, libVars,
                   scannerVars, keypadVars>>

\* the loop is left with attempts < maxAttempts: createLink and the reply
ShortenCreate(i) ==
    /\ pc = "server"
    /\ shorten[i].pc = "codeExists"
    /\ ~(shorten[i].exists /\ shorten[i].attempts < MaxAttempts)
    /\ shorten[i].attempts < MaxAttempts
    /\ IF supabase /\ InsertFails(links, shorten[i].shortCode)
       THEN /\ shorten' = [shorten EXCEPT
                  ![i].pc = "done",
                  ![i].response = [NoResponse EXCEPT !.status = 500,
                                       !.error = "Internal server error"]]
            /\ UNCHANGED <<links, memoryIdCounter>>
       ELSE /\ links' = MapSet(links, NewLink(memoryIdCounter,
                           shorten[i].shortCode, shorten[i].url,
                           shorten[i].userId))
            /\ memoryIdCounter' = memoryIdCounter + 1
            /\ shorten' = [shorten EXCEPT
                  ![i].pc = "done",
                  ![i].response = [status |-> 200,
                      code |-> shorten[i].shortCode,
                      isExisting |-> FALSE, error |-> ""]]
    /\ UNCHANGED <<pc, supabase, redirect, libVars, scannerVars, keypadVars>>

\* the codes a scanner or a browser asks GET /r/[code] for: a stored code
\* typed in lower case with a blank after it, a code one misread character
\* away from the stored ones, and a code far from every stored one
RedirectInputs ==
    { <<"p","l","-","a","a","a","-","a","a","a"," ">>,
      <<"P","L","-","A","A","A","-","A","A","0">>,
      <<"P","L","-","9","9","9","-","9","9","9">> }

\* recordClick(matchedCode) for request j, then the redirect to the link's
\* url.  In memory the count is incremented in place at once; with Supabase
\* the current click_count is selected first and the update follows
BeginRecordClick(j, link, matchedCode) ==
    IF supabase
    THEN /\ redirect' = [redirect EXCEPT
               ![j].pc = "recordClick", ![j].link = link,
               ![j].matchedCode = matchedCode,
               ![j].clickCount =
                   IF CodeExists(links, matchedCode)
                   THEN Some(GetLinkByCode(links, matchedCode)[1].click_count)
                   ELSE Null]
         /\ UNCHANGED links
    ELSE /\ links' = IF CodeExists(links, matchedCode)
                     THEN SetClickCount(links, matchedCode,
                            GetLinkByCode(links, matchedCode)[1].click_count + 1)
                     ELSE links
         /\ redirect' = [redirect EXCEPT
               ![j].pc = "done", ![j].link = link,
               ![j].matchedCode = matchedCode,
               ![j].recorded = IF CodeExists(links, matchedCode)
                               THEN Append(@, matchedCode) ELSE @,
               ![j].location = link[1].original_url]

NotFound(j) ==
    /\ redirect' = [redirect EXCEPT ![j].pc = "done", ![j].link = Null,
                                    ![j].location = "/?error=not_found"]
    /\ UNCHANGED links

\* GET arrives: normalizeCode and the exact lookup
RedirectStart(j) ==
    /\ pc = "server"
    /\ redirect[j].pc = "none"
    /\ \A h \in 1..(j - 1) : redirect[h].pc # "none"
    /\ \E c \in RedirectInputs :
       \E normalizedCode \in {NormalizeCode(c)} :
          redirect' = [redirect EXCEPT
              ![j].pc = "getLinkByCode", ![j].code = c,
              ![j].matchedCode = normalizedCode,
              ![j].link = GetLinkByCode(links, normalizedCode)]
    /\ UNCHANGED <<pc, supabase, links, memoryIdCounter, shorten, libVars,
                   scannerVars, keypadVars>>

\* the handler resumes from the exact lookup
RedirectAfterExact(j) ==
    /\ pc = "server"
    /\ redirect[j].pc = "getLinkByCode"
    /\ IF redirect[j].link = Null
       THEN /\ redirect' = [redirect EXCEPT
                  ![j].pc = "getAllCodes",
                  ![j].allCodes = GetAllCodes(links)]
            /\ UNCHANGED links
       ELSE BeginRecordClick(j, redirect[j].link, redirect[j].matchedCode)
    /\ UNCHANGED <<pc, supabase, memoryIdCounter, shorten, libVars,
                   scannerVars, keypadVars>>

\* stores that shorten requests leave behind: one link of the signed-in
\* user, and two links in either order
OneLink == MapSet(<<>>, NewLink(1, <<"P","L","-","A","A","A","-","A","A","A">>,
                                "https://a.example/", "u1"))

StoredLinks ==
    { OneLink,
      MapSet(OneLink, NewLink(2, <<"P","L","-","A","A","A","-","A","A","C">>,
                              "https://b.example/", "")),
      MapSet(MapSet(<<>>, NewLink(1, <<"P","L","-","A","A","A","-","A","A","C">>,
                                  "https://b.example/", "u1")),
             NewLink(2, <<"P","L","-","A","A","A","-","A","A","A">>,
                     "https://a.example/", "u1")) }

\* the short codes a store can hold
StoredCodes ==
    ServerCodes \cup UNION {{s[k].short_code : k \in 1..Len(s)} : s \in StoredLinks}

\* the lists getAllCodes can return: stored codes in any order, no code
\* twice (short_code is UNIQUE, and a key of the Map)
CodeLists ==
    {<<>>} \cup {<<a>> : a \in StoredCodes}
           \cup UNION {{<<a, b>> : b \in StoredCodes \ {a}} : a \in StoredCodes}

\* findBestMatch(normalizedCode, allCodes) for every input of the route and
\* every list of codes it can be given
BestMatchOf ==
    [input \in RedirectInputs |->
        [allCodes \in CodeLists |->
            FindBestMatch(NormalizeCode(input), allCodes,
                          DefaultMaxDistance).match]]

\* the handler resumes from getAllCodes: findBestMatch and the second lookup
RedirectAfterAllCodes(j) ==
    /\ pc = "server"
    /\ redirect[j].pc = "getAllCodes"
    /\ \E bestMatch \in {BestMatchOf[redirect[j].code][redirect[j].allCodes]} :
          IF bestMatch # Null
          THEN redirect' = [redirect EXCEPT
                  ![j].pc = "getLinkByBestMatch",
                  ![j].matchedCode = bestMatch[1],
                  ![j].link = GetLinkByCode(links, bestMatch[1])]
          ELSE redirect' = [redirect EXCEPT
                  ![j].pc = "done", ![j].link = Null,
                  ![j].location = "/?error=not_found"]
    /\ UNCHANGED <<pc, supabase, links, memoryIdCounter, shorten, libVars,
                   scannerVars, keypadVars>>

\* the handler resumes from the lookup of the best match
RedirectAfterBestMatch(j) ==
    /\ pc = "server"
    /\ redirect[j].pc = "getLinkByBestMatch"
    /\ IF redirect[j].link = Null
       THEN NotFound(j)
       ELSE BeginRecordClick(j, redirect[j].link, redirect[j].matchedCode)
    /\ UNCHANGED <<pc, supabase, memoryIdCounter, shorten, libVars,
                   scannerVars, keypadVars>>

\* recordClick with Supabase resumes from the select: if (link) update, and
\* the redirect to the url of the link looked up before
RedirectAfterClickSelect(j) ==
    /\ pc = "server"
    /\ redirect[j].pc = "recordClick"
    /\ IF redirect[j].clickCount # Null
       THEN /\ links' = SetClickCount(links, redirect[j].matchedCode,
                            redirect[j].clickCount[1] + 1)
            /\ redirect' = [redirect EXCEPT
                  ![j].pc = "done",
                  ![j].recorded =
                      IF CodeExists(links, redirect[j].matchedCode)
                      THEN Append(@, redirect[j].matchedCode) ELSE @,
                  ![j].location = redirect[j].link[1].original_url]
       ELSE /\ redirect' = [redirect EXCEPT
                  ![j].pc = "done",
                  ![j].location = redirect[j].link[1].original_url]
            /\ UNCHANGED links
    /\ UNCHANGED <<pc, supabase, memoryIdCounter, shorten, libVars,
                   scannerVars, keypadVars>>

\* the dashboard deletes one of the user's links straight from the table
HandleDelete ==
    /\ pc = "server"
    /\ supabase
    /\ \E k \in 1..Len(links) :
          /\ links[k].user_id # ""
          /\ links' = DeleteById(links, links[k].id)
    /\ UNCHANGED <<pc, supabase, memoryIdCounter, shorten, redirect, libVars,
                   scannerVars, keypadVars>>

NextShorten ==
    \E i \in ShortenIds :
        \/ ShortenStart(i)
        \/ ShortenAfterDuplicateCheck(i)
        \/ ShortenRetry(i)
        \/ ShortenGiveUp(i)
        \/ ShortenCreate(i)

NextRedirect ==
    \E j \in RedirectIds :
        \/ RedirectStart(j)
        \/ RedirectAfterExact(j)
        \/ RedirectAfterAllCodes(j)
        \/ RedirectAfterBestMatch(j)
        \/ RedirectAfterClickSelect(j)

NextServer == NextShorten \/ NextRedirect \/ HandleDelete

SpecServer == InitServer /\ [][NextServer]_vars

\* the shorten requests alone, from the empty store
SpecShorten == InitServer /\ [][NextShorten]_vars

\* the redirect requests start over a store that holds links
InitRedirect ==
    /\ pc = "server"
    /\ supabase \in BOOLEAN
    /\ links \in StoredLinks
    /\ memoryIdCounter = Len(links) + 1
    /\ shorten = [i \in ShortenIds |-> NoShorten]
    /\ redirect = [j \in RedirectIds |-> NoRedirect]
    /\ CandIdle /\ MatchIdle /\ DistIdle /\ GenIdle /\ ScannerIdle
    /\ KeypadIdle

NextRedirects == NextRedirect \/ HandleDelete

\* redirects and dashboard deletions over a store that holds links
SpecRedirect == InitRedirect /\ [][NextRedirects]_vars

(***************************************************************************)
(* The interval-scanning scanner page (app/scan/page.tsx, ScanPage with     *)
(* scanIntervalRef): the interval, the OCR pass, the resolution of a        *)
(* detected code and the timers it sets.  The page is gone once             *)
(* window.location.href has been assigned.                                  *)
(***************************************************************************)
\* the urls /api/resolve answers with
ResolvedUrls == {"https://a.example/", "https://b.example/"}

InitScanner ==
    /\ pc = "scanner"
    /\ ScannerIdle
    /\ CandIdle /\ MatchIdle /\ DistIdle /\ GenIdle /\ ServerIdle
    /\ KeypadIdle

OnPage == pc = "scanner" /\ href = Null

\* timers and resolutions the page has pending
Pending == resolving + Len(redirectTimers) + restartTimers

\* startCamera up to its first await
StartCamera ==
    /\ OnPage
    /\ status = "idle"
    /\ status' = "initializing"
    /\ UNCHANGED <<pc, workerRef, scanIntervalRef, isProcessingRef, detectedUrl,
                   recognizing, resolving, redirectTimers, restartTimers,
                   href, libVars, serverVars, keypadVars>>

\* startCamera after the camera and the OCR worker are there: scanning
\* starts; or its catch block
CameraReady ==
    /\ OnPage
    /\ status = "initializing"
    /\ \/ status' = "scanning" /\ scanIntervalRef' = TRUE /\ workerRef' = TRUE
       \/ status' = "error" /\ UNCHANGED <<scanIntervalRef, workerRef>>
    /\ UNCHANGED <<pc, isProcessingRef, detectedUrl, recognizing, resolving,
                   redirectTimers, restartTimers, href, libVars, serverVars,
                   keypadVars>>

\* an interval tick runs captureAndScan up to its await of recognize(); a
\* tick that finds no OCR worker or finds isProcessingRef set returns at
\* once and changes nothing
CaptureAndScan ==
    /\ OnPage
    /\ scanIntervalRef
    /\ workerRef
    /\ ~isProcessingRef
    /\ \E path \in {"noContext", "videoNotReady", "recognize"} :
          CASE path = "noContext" ->
                   /\ isProcessingRef' = TRUE
                   /\ UNCHANGED <<status, recognizing>>
            [] path = "videoNotReady" ->
                   /\ isProcessingRef' = FALSE
                   /\ UNCHANGED <<status, recognizing>>
            [] path = "recognize" ->
                   /\ isProcessingRef' = TRUE
                   /\ status' = "processing"
                   /\ recognizing' = recognizing + 1
    /\ UNCHANGED <<pc, workerRef, scanIntervalRef, detectedUrl, resolving,
                   redirectTimers, restartTimers, href, libVars, serverVars,
                   keypadVars>>

\* handleCodeDetected up to its await of fetch
DetectCode ==
    /\ scanIntervalRef' = FALSE
    /\ status' = "detected"
    /\ resolving' = resolving + 1

\* captureAndScan resumes from recognize(): a code in the text, no code, or
\* an exception
RecognizeDone ==
    /\ OnPage
    /\ recognizing > 0
    /\ recognizing' = recognizing - 1
    /\ isProcessingRef' = FALSE
    /\ \E outcome \in {"code", "noCode", "exception"} :
          IF outcome = "code"
          THEN /\ Pending < MaxPending
               /\ DetectCode
          ELSE /\ status' = "scanning"
               /\ UNCHANGED <<scanIntervalRef, resolving>>
    /\ UNCHANGED <<pc, workerRef, detectedUrl, redirectTimers, restartTimers,
                   href, libVars, serverVars, keypadVars>>

\* the manual entry form is submitted with a code in it
HandleManualSubmit ==
    /\ OnPage
    /\ Pending < MaxPending
    /\ DetectCode
    /\ UNCHANGED <<pc, workerRef, isProcessingRef, detectedUrl, recognizing,
                   redirectTimers, restartTimers, href, libVars, serverVars,
                   keypadVars>>

\* handleCodeDetected resumes from fetch and json(): the code resolved to a
\* url and the redirect is set for 2 seconds later, or it did not and
\* scanning is set to restart 1 second later
ResolveDone ==
    /\ OnPage
    /\ resolving > 0
    /\ resolving' = resolving - 1
    /\ \/ \E url \in ResolvedUrls :
             /\ detectedUrl' = url
             /\ status' = "redirecting"
             /\ redirectTimers' = Append(redirectTimers,
                                     [url |-> url, cancelled |-> FALSE])
             /\ UNCHANGED restartTimers
       \/ /\ status' = "scanning"
          /\ restartTimers' = restartTimers + 1
          /\ UNCHANGED <<detectedUrl, redirectTimers>>
    /\ UNCHANGED <<pc, workerRef, scanIntervalRef, isProcessingRef, recognizing, href,
                   libVars, serverVars, keypadVars>>

\* the oldest redirect timeout fires: window.location.href = data.url
RedirectTimeout ==
    /\ OnPage
    /\ redirectTimers # <<>>
    /\ href' = Some(Head(redirectTimers))
    /\ redirectTimers' = Tail(redirectTimers)
    /\ UNCHANGED <<pc, workerRef, status, scanIntervalRef, isProcessingRef, detectedUrl,
                   recognizing, resolving, restartTimers, libVars,
                   serverVars, keypadVars>>

\* a restart timeout fires: startScanning()
RestartTimeout ==
    /\ OnPage
    /\ restartTimers > 0
    /\ restartTimers' = restartTimers - 1
    /\ scanIntervalRef' = TRUE
    /\ UNCHANGED <<pc, workerRef, status, isProcessingRef, detectedUrl, recognizing,
                   resolving, redirectTimers, href, libVars, serverVars,
                   keypadVars>>

\* what cancelRedirect does to the timeouts that are pending: nothing; the
\* field cancelled only records that the user cancelled while the page said
\* 'redirecting'
AfterCancel(timers, wasRedirecting) ==
    [k \in 1..Len(timers) |->
        [timers[k] EXCEPT !.cancelled = @ \/ wasRedirecting]]

\* the Cancel button, shown while status is 'detected' or 'redirecting'
CancelRedirect ==
    /\ OnPage
    /\ status \in {"detected", "redirecting"}
    /\ status' = "scanning"
    /\ detectedUrl' = ""
    /\ scanIntervalRef' = TRUE
    /\ redirectTimers' = AfterCancel(redirectTimers, status = "redirecting")
    /\ UNCHANGED <<pc, workerRef, isProcessingRef, recognizing, resolving,
                   restartTimers, href, libVars, serverVars, keypadVars>>

NextScanner ==
    \/ StartCamera
    \/ CameraReady
    \/ CaptureAndScan
    \/ RecognizeDone
    \/ HandleManualSubmit
    \/ ResolveDone
    \/ RedirectTimeout
    \/ RestartTimeout
    \/ CancelRedirect

SpecScanner == InitScanner /\ [][NextScanner]_vars

(***************************************************************************)
(* The keypad-style scanner page (ScanPage with manualCodeChars): the       *)
(* hidden input's key handler and the submission of the six characters.     *)
(* React renders after each key event, so the handler sees the value the    *)
(* event before it left.                                                    *)
(***************************************************************************)
\* manualCodeChars.length === 6, < 6, !== 6
ManualCodeLength == 6

\* e.key of the events: named keys and character keys
Keys ==
    { <<"B","a","c","k","s","p","a","c","e">>, <<"E","n","t","e","r">>,
      <<"S","h","i","f","t">>, <<"F","2">>, <<"a">>, <<"7">>, <<"b">>, <<"0">>,
      <<"-">> }

\* String.prototype.includes: sub occurs in str as a substring
Includes(str, sub) ==
    \E k \in 0..(Len(str) - Len(sub)) :
        SubSeq(str, k + 1, k + Len(sub)) = sub

\* validChars.includes(key) as a test of the first character only
AcceptsKey_firstChar(key) == key # <<>> /\ key[1] \in Range(ValidChars)

\* validChars.includes(key)
AcceptsKey(key) == Includes(ValidChars, key)

\* prev.slice(0, -1)
DropLast(str) == SubSeq(str, 1, Len(str) - 1)

\* `PL-${manualCodeChars.slice(0, 3)}-${manualCodeChars.slice(3, 6)}`
FullCode(chars) ==
    <<"P", "L", "-">> \o SubSeq(chars, 1, Min(3, Len(chars))) \o <<"-">>
        \o SubSeq(chars, 4, Min(6, Len(chars)))

InitKeypad ==
    /\ pc = "keypad"
    /\ KeypadIdle
    /\ CandIdle /\ MatchIdle /\ DistIdle /\ GenIdle /\ ServerIdle
    /\ ScannerIdle

\* handleManualSubmit: the code handed to handleCodeDetected, if any
ManualSubmit ==
    IF Len(manualCodeChars) # ManualCodeLength THEN UNCHANGED fullCode
    ELSE fullCode' = FullCode(manualCodeChars)

HandleKeyDown ==
    /\ pc = "keypad"
    /\ \E eKey \in Keys :
          LET key == ToUpperCase(eKey) IN
          IF eKey = <<"B","a","c","k","s","p","a","c","e">>
          THEN /\ manualCodeChars' = DropLast(manualCodeChars)
               /\ UNCHANGED fullCode
          ELSE IF eKey = <<"E","n","t","e","r">>
                  /\ Len(manualCodeChars) = ManualCodeLength
          THEN /\ ManualSubmit
               /\ UNCHANGED manualCodeChars
          ELSE IF AcceptsKey(key) /\ Len(manualCodeChars) < ManualCodeLength
          THEN /\ manualCodeChars' = manualCodeChars \o key
               /\ UNCHANGED fullCode
          ELSE UNCHANGED <<manualCodeChars, fullCode>>
    /\ UNCHANGED <<pc, libVars, serverVars, scannerVars>>

\* the Go button, disabled unless six characters are entered
ClickGo ==
    /\ pc = "keypad"
    /\ Len(manualCodeChars) = ManualCodeLength
    /\ ManualSubmit
    /\ UNCHANGED <<pc, manualCodeChars, libVars, serverVars, scannerVars>>

NextKeypad == HandleKeyDown \/ ClickGo

SpecKeypad == InitKeypad /\ [][NextKeypad]_vars

(***************************************************************************)
(* The whole program: any one call of any of the library's functions, the   *)
(* server with its requests, or one of the scanner pages.                   *)
(***************************************************************************)
Init ==
    \/ InitCandidates \/ InitMatch \/ InitDistance \/ InitGenerate
    \/ InitValidate \/ InitExtract \/ InitGarbage \/ InitBackground
    \/ InitServer \/ InitRedirect \/ InitScanner \/ InitKeypad

Next ==
    \/ CallGenerateCandidates
    \/ CallFindBestMatch
    \/ CallEditDistance
    \/ CallGenerateCode
    \/ CallIsValidCode
    \/ CallExtractCodes
    \/ CallBackgroundGenerateCode
    \/ NextServer
    \/ NextScanner
    \/ NextKeypad

Spec == Init /\ [][Next]_vars

(***************************************************************************)
(* Claims about generateCandidates (SpecCandidates).                        *)
(***************************************************************************)
Returned == pc = "candidates"

\* the characters a preprocessed string may contain: A-Z, 0-9 and '-'
CleanChars == Range(UpperLetters) \cup Range(Digits) \cup {"-"}

IsClean(c) == c \in CleanChars

\* uppercase(raw) with every character other than A-Z, 0-9, '-' removed
ExpectedNormalized(raw) == SelectSeq(ToUpperCase(raw), IsClean)

Alphabet == Range(CHARS)

\* the single-position substitutions the specification allows for n
Substitutions(n) ==
    {[n EXCEPT ![i] = r] : <<i, r>> \in
        {p \in (1..Len(n)) \X Alphabet :
            /\ n[p[1]] # "-"
            /\ n[p[1]] \in DOMAIN OCR_CORRECTIONS
            /\ p[2] \in Range(OCR_CORRECTIONS[n[p[1]]])}}

NoDuplicates(seq) == Cardinality(Range(seq)) = Len(seq)

\* C3: generateCandidates(raw) is exactly {N} plus every N with one
\* non-hyphen position holding a confusion-map key replaced by an alphabet
\* member of that key's list, N the uppercased and stripped input; so every
\* candidate is as long as N, differs from N in at most one position and
\* never at a hyphen.
C3_CandidatesExactSet ==
    Returned =>
        LET n == ExpectedNormalized(rawCode) IN
        /\ Range(candidates) = {n} \cup Substitutions(n)
        /\ \A c \in Range(candidates) :
              /\ Len(c) = Len(n)
              /\ Cardinality({k \in 1..Len(n) : c[k] # n[k]}) <= 1
              /\ \A k \in 1..Len(n) : n[k] = "-" => c[k] = "-"

C3_Witness ==
    /\ Returned
    /\ Len(candidates) >= 3
    /\ "-" \in Range(candidates[1])
    /\ "L" \in Range(candidates[1])

\* C4 as stated: normalizeCode(s) (uppercase and trim) is a member of
\* generateCandidates(s) for every input s.
C4_IdentityCandidate ==
    Returned => NormalizeCode(rawCode) \in Range(candidates)

\* C4 as amended: whenever normalizeCode(s) consists only of the characters
\* A-Z, 0-9 and '-', it is a member of generateCandidates(s).
C4_IdentityCandidateClean ==
    (Returned /\ \A k \in 1..Len(NormalizeCode(rawCode)) :
                    NormalizeCode(rawCode)[k] \in CleanChars)
        => NormalizeCode(rawCode) \in Range(candidates)

C4_Witness ==
    /\ Returned
    /\ rawCode # <<>> /\ IsWhitespace(rawCode[1])
    /\ NormalizeCode(rawCode) # <<>>
    /\ NormalizeCode(rawCode) # rawCode
    /\ \A k \in 1..Len(NormalizeCode(rawCode)) :
          NormalizeCode(rawCode)[k] \in CleanChars
    /\ NormalizeCode(rawCode) \in Range(candidates)

\* C5: the first element of generateCandidates(raw) is the preprocessed
\* input (uppercased, then stripped of everything but alphanumerics and
\* hyphens), also when that string is empty.
C5_FirstIsNormalized ==
    Returned =>
        /\ candidates # <<>>
        /\ candidates[1] = ExpectedNormalized(rawCode)

C5_Witness ==
    /\ Returned
    /\ Len(candidates) > 1
    /\ candidates[1] # rawCode
    /\ candidates[1] = ExpectedNormalized(rawCode)

C5_WitnessEmpty ==
    Returned /\ rawCode # <<>> /\ candidates = << <<>> >>

\* the longest list of the confusion map
ConfusionListMax == 2

\* C6 as stated: generateCandidates(s) holds no string twice and at most
\* 1 + len(s) * 2 strings, len(s) the length of the raw input.
C6_CandidateBoundRaw ==
    Returned =>
        /\ NoDuplicates(candidates)
        /\ Len(candidates) <= 1 + Len(rawCode) * ConfusionListMax

\* C6 as amended: generateCandidates(s) holds no string twice and at most
\* 1 + len(N) * 2 strings, N the uppercased and stripped input (uppercasing
\* can lengthen the raw input).
C6_CandidateBoundNormalized ==
    Returned =>
        /\ NoDuplicates(candidates)
        /\ Len(candidates)
              <= 1 + Len(ExpectedNormalized(rawCode)) * ConfusionListMax

C6_Witness ==
    /\ Returned
    /\ Len(rawCode) = MaxRawLen
    /\ Len(candidates) = 1 + Len(rawCode) * ConfusionListMax

\* C9: no confusion-map entry has an alphabet character as its key and a
\* different alphabet character in its list.
C9_AlphabetInvariant ==
    Returned =>
        \A k \in DOMAIN OCR_CORRECTIONS \cap Alphabet :
            \A r \in Range(OCR_CORRECTIONS[k]) : r \in Alphabet => r = k

(***************************************************************************)
(* Claims about findBestMatch (SpecMatch).                                  *)
(***************************************************************************)
Matched == pc = "matched"

MinOf(S) == CHOOSE x \in S : \A y \in S : x <= y

\* the distances of all (candidate, known code) pairs
PairDistances(cands, valid) ==
    {EditDistance(c, v) : <<c, v>> \in Range(cands) \X Range(valid)}

NoExactHit == Range(GenerateCandidates(ocrResult)) \cap Range(validCodes) = {}

\* C1: when no candidate is a known code, findBestMatch returns a known
\* code at the minimum distance over all (candidate, known code) pairs if
\* that minimum is within maxDistance, and null if it is not.
C1_FuzzyMinimum ==
    (Matched /\ NoExactHit) =>
        IF validCodes = <<>> THEN result = Null
        ELSE LET cands == GenerateCandidates(ocrResult)
                 least == MinOf(PairDistances(cands, validCodes))
             IN IF least <= maxDistance
                THEN /\ result # Null
                     /\ result[1] \in Range(validCodes)
                     /\ \E c \in Range(cands) :
                           EditDistance(c, result[1]) = least
                ELSE result = Null

C1_Witness ==
    /\ Matched /\ NoExactHit
    /\ result # Null
    /\ LET d == PairDistances(GenerateCandidates(ocrResult), validCodes) IN
          /\ MinOf(d) = maxDistance
          /\ \E far \in d : far > maxDistance

C1_WitnessNull ==
    /\ Matched /\ NoExactHit
    /\ validCodes # <<>>
    /\ result = Null
    /\ maxDistance = MaxBudget

\* C2: when some candidate is a known code, findBestMatch returns the
\* earliest such candidate in generation order, whatever maxDistance is,
\* and makes no editDistance call.
C2_ExactFirst ==
    (Matched /\ ~NoExactHit) =>
        LET cands == GenerateCandidates(ocrResult)
            first == MinOf({k \in 1..Len(cands) : cands[k] \in Range(validCodes)})
        IN /\ result = Some(cands[first])
           /\ distanceCalls = 0

C2_Witness ==
    /\ Matched /\ ~NoExactHit
    /\ maxDistance = 0
    /\ Len(validCodes) = 2
    /\ validCodes[1] # validCodes[2]
    /\ validCodes[1] \in Range(GenerateCandidates(ocrResult))
    /\ result = Some(validCodes[2])
    /\ result # Some(GenerateCandidates(ocrResult)[1])

\* C8: respelling known codes in another letter case changes neither
\* whether findBestMatch finds a match nor, up to case, which code it is.
C8_CaseInsensitive ==
    Matched =>
        LET upper == [k \in 1..Len(validCodes) |-> ToUpperCase(validCodes[k])]
            other == FindBestMatch(ocrResult, upper, maxDistance).match
        IN /\ (result = Null) <=> (other = Null)
           /\ result # Null => ToUpperCase(result[1]) = other[1]

(***************************************************************************)
(* Claims about editDistance (SpecDistance).                                *)
(***************************************************************************)
Measured == pc = "distance"

\* the strings one insertion, deletion or substitution away from s, no
\* longer than maxLen
OneEdit(s, maxLen) ==
    {SubSeq(s, 1, k - 1) \o SubSeq(s, k + 1, Len(s)) : k \in 1..Len(s)}
    \cup {[s EXCEPT ![k] = c] : <<k, c>> \in (1..Len(s)) \X DistChars}
    \cup IF Len(s) >= maxLen THEN {}
         ELSE {SubSeq(s, 1, k) \o <<c>> \o SubSeq(s, k + 1, Len(s)) :
                  <<k, c>> \in (0..Len(s)) \X DistChars}

\* the least number of single-character edits turning some string of
\* reached into target: breadth-first search from reached
RECURSIVE EditSteps(_, _, _, _)
EditSteps(reached, target, maxLen, k) ==
    IF target \in reached THEN k
    ELSE EditSteps(reached \cup UNION {OneEdit(s, maxLen) : s \in reached},
                   target, maxLen, k + 1)

Levenshtein(a, b) ==
    EditSteps({a}, b, IF Len(a) > Len(b) THEN Len(a) ELSE Len(b), 0)

\* C7: editDistance(s1, s2) is the Levenshtein distance of s1 and s2, also
\* for empty strings; it is 0 iff s1 = s2, symmetric, and at least the
\* difference of the lengths.
C7_EditDistanceIsLevenshtein ==
    Measured =>
        /\ distance = Levenshtein(s1, s2)
        /\ (distance = 0) <=> (s1 = s2)
        /\ distance = EditDistance(s2, s1)
        /\ distance >= Len(s1) - Len(s2)
        /\ distance >= Len(s2) - Len(s1)

C7_Witness ==
    /\ Measured
    /\ Len(s1) < Len(s2)
    /\ distance > Len(s2) - Len(s1)
    /\ distance < Len(s2)
    /\ distance = Levenshtein(s1, s2)

C7_WitnessEmpty ==
    Measured /\ s1 = <<>> /\ s2 # <<>> /\ distance = Len(s2)

(***************************************************************************)
(* Claims about generateCode and isValidCode (SpecGenerate).                *)
(***************************************************************************)
Generated == pc = "generated"

\* C10: every string generateCode returns is accepted by isValidCode: it
\* is 10 characters long, starts with 'PL-', has a hyphen at index 6, and
\* its other six characters are alphabet members.
C10_RoundTrip ==
    Generated =>
        /\ IsValidCode(code)
        /\ Len(code) = 10
        /\ SubSeq(code, 1, 3) = <<"P", "L", "-">>
        /\ code[7] = "-"
        /\ \A k \in {4, 5, 6, 8, 9, 10} : code[k] \in Alphabet

C10_Witness ==
    /\ Generated
    /\ IsValidCode(code)
    /\ code[4] = CHARS[1]
    /\ code[10] = CHARS[Len(CHARS)]

(***************************************************************************)
(* Claims about isValidCode (SpecValidate).                                 *)
(***************************************************************************)
Validated == pc = "validated"

\* 'PL-' + 3 alphabet characters + '-' + 3 alphabet characters, exactly
InGrammar(u) ==
    /\ Len(u) = 10
    /\ SubSeq(u, 1, 3) = <<"P", "L", "-">>
    /\ SubSeq(u, 4, 6) \in [1..3 -> Alphabet]
    /\ u[7] = "-"
    /\ SubSeq(u, 8, 10) \in [1..3 -> Alphabet]

\* C11: isValidCode(code) is true iff the uppercased string is exactly
\* 'PL-' + 3 alphabet characters + '-' + 3 alphabet characters with nothing
\* before or after; lowercase spellings of a valid code are accepted.
C11_ValidIffGrammar ==
    Validated => (isValid <=> InGrammar(ToUpperCase(code)))

C11_Witness ==
    /\ Validated
    /\ isValid
    /\ code # ToUpperCase(code)

C11_WitnessPadded ==
    /\ Validated
    /\ ~isValid
    /\ code # Trim(code)
    /\ InGrammar(ToUpperCase(Trim(code)))

(***************************************************************************)
(* Claims about extractCodes (SpecExtract).                                 *)
(***************************************************************************)
Extracted == pc = "extracted"

Upper == ToUpperCase(text)

\* the positions of the uppercased text where a grammar match starts
GrammarPositions ==
    {p \in 1..(Len(Upper) - 9) : InGrammar(SubSeq(Upper, p, p + 9))}

\* the leftmost non-overlapping ones: a position is taken iff no taken
\* position lies in the nine before it
LeftmostPositions ==
    CHOOSE S \in SUBSET GrammarPositions :
        \A p \in GrammarPositions :
            p \in S <=> \A q \in S : ~(p - 10 < q /\ q < p)

CodeAt(p) == SubSeq(Upper, p, p + 9)

FirstAt(S, c) == MinOf({p \in S : CodeAt(p) = c})

\* seq lists the codes at the positions S once each, by first appearance
ListsInOrder(seq, S) ==
    /\ NoDuplicates(seq)
    /\ Range(seq) = {CodeAt(p) : p \in S}
    /\ \A i, j \in 1..Len(seq) : i < j => FirstAt(S, seq[i]) < FirstAt(S, seq[j])

\* C12 as stated: extractCodes returns all substrings matching the
\* grammar, uppercased, without duplicates, in order of first appearance,
\* those overlapping an earlier match included.
C12_AllSubstrings ==
    Extracted => ListsInOrder(matches, GrammarPositions)

\* C12 as amended: extractCodes returns the leftmost non-overlapping
\* substrings matching the grammar (the search resumes at the end of each
\* match), uppercased, without duplicates, in order of first appearance.
C12_LeftmostSubstrings ==
    Extracted => ListsInOrder(matches, LeftmostPositions)

C12_Witness ==
    /\ Extracted
    /\ Len(matches) = 2
    /\ Cardinality(LeftmostPositions) = 3
    /\ text # Upper

C12_WitnessOverlap ==
    /\ Extracted
    /\ LeftmostPositions # GrammarPositions
    /\ matches # <<>>

RECURSIVE JoinSpace(_)
JoinSpace(seq) ==
    IF seq = <<>> THEN <<>>
    ELSE IF Len(seq) = 1 THEN seq[1]
    ELSE seq[1] \o <<" ">> \o JoinSpace(Tail(seq))

\* C13: extractCodes of the space-joined result of extractCodes(text) is
\* extractCodes(text) again; a text without grammar match gives the empty
\* list.
C13_ExtractIdempotent ==
    Extracted =>
        /\ ExtractCodes(JoinSpace(matches)) = matches
        /\ GrammarPositions = {} => matches = <<>>

C13_Witness ==
    /\ Extracted
    /\ Len(matches) = 2
    /\ JoinSpace(matches) # text
    /\ ExtractCodes(JoinSpace(matches)) = matches

C13_WitnessEmpty ==
    /\ Extracted
    /\ Len(text) > 10
    /\ GrammarPositions = {}
    /\ matches = <<>>

(***************************************************************************)
(* Further claims about findBestMatch (SpecMatch).                          *)
(***************************************************************************)
\* the least distance from a candidate of the call to the known code v
DistanceTo(v) ==
    MinOf({EditDistance(c, v) : c \in Range(GenerateCandidates(ocrResult))})

\* C14: with maxDistance = 0 findBestMatch returns a code iff some
\* candidate is a known code, however close the other known codes are.
C14_ZeroBudgetExactOnly ==
    (Matched /\ maxDistance = 0) => (result # Null <=> ~NoExactHit)

C14_Witness ==
    /\ Matched /\ maxDistance = 0
    /\ NoExactHit
    /\ result = Null
    /\ \E k \in 1..Len(validCodes) : DistanceTo(validCodes[k]) = 1

\* C15: when several known codes are at the same minimum distance within
\* maxDistance, the fuzzy pass returns the one that comes first in
\* validCodes.
C15_FirstOfTies ==
    (Matched /\ NoExactHit /\ result # Null) =>
        LET least == MinOf({DistanceTo(validCodes[k]) : k \in 1..Len(validCodes)})
            first == MinOf({k \in 1..Len(validCodes) :
                               DistanceTo(validCodes[k]) = least})
        IN result = Some(validCodes[first])

C15_Witness ==
    /\ Matched /\ NoExactHit
    /\ Len(validCodes) = 2
    /\ validCodes[1] # validCodes[2]
    /\ DistanceTo(validCodes[1]) = DistanceTo(validCodes[2])
    /\ result = Some(validCodes[1])

\* C16: with no known codes findBestMatch returns null, whatever the input
\* and the budget, and compares no distance.
C16_EmptyKnownCodes ==
    (Matched /\ validCodes = <<>>) => (result = Null /\ distanceCalls = 0)

C16_Witness ==
    /\ Matched /\ validCodes = <<>>
    /\ Len(ocrResult) = MaxOcrLen
    /\ maxDistance = MaxBudget
    /\ result = Null

(***************************************************************************)
(* Claims about findBestMatch on garbage input (SpecGarbage).               *)
(***************************************************************************)
\* the preprocessed length is more than maxDistance away from 10
OffLength(n) == Len(n) - 10 > maxDistance \/ 10 - Len(n) > maxDistance

\* C17: an input whose preprocessed form is empty or, more generally, whose
\* preprocessed length differs from 10 by more than maxDistance matches no
\* well-formed code: findBestMatch returns null, while generateCandidates
\* returns a non-empty list holding the preprocessed string.
C17_GarbageNoMatch ==
    (/\ Matched
     /\ \A k \in 1..Len(validCodes) : IsValidCode(validCodes[k])
     /\ OffLength(ExpectedNormalized(ocrResult)))
        => /\ result = Null
           /\ GenerateCandidates(ocrResult) # <<>>
           /\ ExpectedNormalized(ocrResult) \in Range(GenerateCandidates(ocrResult))

C17_Witness ==
    /\ Matched
    /\ validCodes # <<>>
    /\ \A k \in 1..Len(validCodes) : IsValidCode(validCodes[k])
    /\ Len(ExpectedNormalized(ocrResult)) = 10 - maxDistance - 1
    /\ ExpectedNormalized(ocrResult) = SubSeq(validCodes[1], 1, 10 - maxDistance - 1)
    /\ maxDistance = MaxBudget
    /\ result = Null

C17_WitnessEmpty ==
    /\ Matched
    /\ validCodes # <<>>
    /\ ocrResult # <<>>
    /\ GenerateCandidates(ocrResult) = << <<>> >>
    /\ result = Null

\* an input one character closer is matched: the length rule is tight
C17_WitnessTight ==
    /\ Matched
    /\ Len(ExpectedNormalized(ocrResult)) = 10 - maxDistance
    /\ maxDistance = MaxBudget
    /\ result # Null

(***************************************************************************)
(* Further claims about generateCandidates (SpecCandidates).                *)
(***************************************************************************)
\* the (position, index in the confusion list) pairs that substitute an
\* alphabet member into n
SubstitutionPairs(n) ==
    {p \in (1..Len(n)) \X (1..ConfusionListMax) :
        /\ n[p[1]] # "-"
        /\ n[p[1]] \in DOMAIN OCR_CORRECTIONS
        /\ p[2] <= Len(OCR_CORRECTIONS[n[p[1]]])
        /\ OCR_CORRECTIONS[n[p[1]]][p[2]] \in Alphabet}

\* C18: no list of the confusion map contains its own key, so every
\* substituted candidate differs from the preprocessed input and there is
\* exactly one candidate per (position, alphabet substitute) pair besides
\* the input itself.
C18_NoNoOpSubstitution ==
    Returned =>
        /\ \A k \in DOMAIN OCR_CORRECTIONS : k \notin Range(OCR_CORRECTIONS[k])
        /\ \A i \in 2..Len(candidates) : candidates[i] # candidates[1]
        /\ Len(candidates)
              = 1 + Cardinality(SubstitutionPairs(ExpectedNormalized(rawCode)))

C18_Witness ==
    /\ Returned
    /\ Len(candidates) > 1 + ConfusionListMax
    /\ Len(candidates)
          = 1 + Cardinality(SubstitutionPairs(ExpectedNormalized(rawCode)))
    /\ \E i \in 1..Len(rawCode) : rawCode[i] = "L"

(***************************************************************************)
(* Claims about the code generators together (SpecGenerators).              *)
(***************************************************************************)
\* C20: every code a generator of the repository emits (generateCode of
\* the library and of the extension's background worker) is accepted by
\* isValidCode and found by extractCodes, and the character sets of
\* isValidCode, extractCodes, the scanner's codePattern and the manual
\* entry's validChars all equal CHARS.
C20_NoDrift ==
    pc \in {"generated", "backgroundGenerated"} =>
        /\ IsValidCode(code)
        /\ code \in Range(ExtractCodes(code))
        /\ ValidPatternClass = Alphabet
        /\ ExtractPatternClass = Alphabet
        /\ ScanPatternClass = Alphabet
        /\ Range(ValidChars) = Alphabet

\* the part of C20 about the library's own generator and the character
\* sets, which the code satisfies
C20_LibraryPart ==
    pc = "generated" =>
        /\ IsValidCode(code)
        /\ code \in Range(ExtractCodes(code))
        /\ ValidPatternClass = Alphabet
        /\ ExtractPatternClass = Alphabet
        /\ ScanPatternClass = Alphabet
        /\ Range(ValidChars) = Alphabet

(***************************************************************************)
(* Claims about the result of findBestMatch (SpecMatch).                    *)
(***************************************************************************)
\* C25: findBestMatch returns null or an element of validCodes, never a
\* candidate or another string that is not a known code, and the call leaves
\* validCodes as it was.
C25_ResultIsKnownCode ==
    [][pc' = "matched" =>
          /\ validCodes' = validCodes
          /\ result' = Null \/ result'[1] \in Range(validCodes)]_vars

\* a fuzzy match: the code returned is none of the candidates
C25_Witness ==
    /\ Matched /\ result # Null
    /\ result[1] \notin Range(GenerateCandidates(ocrResult))
    /\ result[1] \in Range(validCodes)

\* C26: a code returned under budget d is returned under every budget
\* d' >= d as well; a larger budget only turns null into a match.
C26_BudgetMonotone ==
    (Matched /\ result # Null) =>
        \A d2 \in maxDistance..(MaxBudget + 1) :
            FindBestMatch(ocrResult, validCodes, d2).match = result

\* a fuzzy match at distance 1 found under budget 1, two known codes
C26_Witness ==
    /\ Matched /\ NoExactHit /\ result # Null
    /\ maxDistance = 1
    /\ Len(validCodes) = 2 /\ validCodes[1] # validCodes[2]
    /\ DistanceTo(result[1]) = 1

\* a null under budget 0 that a larger budget turns into a match
C26_WitnessNull ==
    /\ Matched /\ result = Null /\ maxDistance = 0
    /\ FindBestMatch(ocrResult, validCodes, MaxBudget).match # Null

(***************************************************************************)
(* Claims about the server (SpecShorten, SpecRedirect).                     *)
(***************************************************************************)
\* C21: with the in-memory store, whatever the interleaving of shorten
\* requests at their awaits, no step puts a link under a short code that a
\* stored link already has: every stored link keeps its code, its url and
\* its id, and no two stored links share a code.
C21_UniqueCodeNeverOverwritten ==
    [][~supabase =>
          /\ \A k \in 1..Len(links) :
                /\ k <= Len(links')
                /\ links'[k].short_code = links[k].short_code
                /\ links'[k].original_url = links[k].original_url
                /\ links'[k].id = links[k].id
          /\ \A k, m \in 1..Len(links') :
                links'[k].short_code = links'[m].short_code => k = m]_vars

\* C22: whatever the order or interleaving of shorten requests that carry a
\* userId, the store holds at most one link per (userId, url), and a reply
\* with isExisting = true names the code of the stored link of that user
\* and url.
C22_NoDuplicateLinks ==
    /\ \A k, m \in 1..Len(links) :
          (/\ links[k].user_id # ""
           /\ links[k].user_id = links[m].user_id
           /\ links[k].original_url = links[m].original_url) => k = m
    /\ \A i \in ShortenIds :
          (shorten[i].pc = "done" /\ shorten[i].response.isExisting) =>
              \E k \in 1..Len(links) :
                  /\ links[k].short_code = shorten[i].response.code
                  /\ links[k].user_id = shorten[i].userId
                  /\ links[k].original_url = shorten[i].url

\* C28: a shorten request answers 500 'Failed to generate unique code' only
\* if codeExists found the last code it generated among the stored links; a
\* generated code found free, the one of the last retry included, is the
\* code the link is created with.
C28_FailsOnlyOnCollision ==
    \A i \in ShortenIds :
        (/\ shorten[i].pc = "done"
         /\ shorten[i].response.error = "Failed to generate unique code")
            => shorten[i].exists

\* the redirects that have finished recordClick(shortCode)
CompletedClicks(shortCode) ==
    {j \in RedirectIds : /\ redirect[j].pc = "done"
                         /\ redirect[j].link # Null
                         /\ redirect[j].matchedCode = shortCode}

\* C23: after N completed recordClick(code) calls for a stored code, in any
\* interleaving of the redirects, its click_count has grown by exactly N
\* (the stored links start at 0).
C23_NoLostClick ==
    \A k \in 1..Len(links) :
        links[k].click_count = Cardinality(CompletedClicks(links[k].short_code))

Served(j) == redirect[j].pc = "done" /\ redirect[j].link # Null

\* the served link has since been deleted from the table
Deleted(j) ==
    \A k \in 1..Len(links) : links[k].id # redirect[j].link[1].id

\* the code the handler serves: the stored code equal to the normalized
\* input if the exact lookup found it, the best fuzzy match otherwise
ExpectedCode(j) ==
    IF redirect[j].allCodes = <<>> /\ redirect[j].link # Null
    THEN Some(NormalizeCode(redirect[j].code))
    ELSE BestMatchOf[redirect[j].code][redirect[j].allCodes]

C27_WitnessNotFound ==
    \E j, h \in RedirectIds :
        /\ redirect[j].pc = "done" /\ redirect[j].link = Null
        /\ Served(h) /\ redirect[h].recorded # <<>>

(***************************************************************************)
(* Claims about the scanner pages (SpecScanner, SpecKeypad).                *)
(***************************************************************************)
\* C24: once cancelRedirect has run while the status was 'redirecting', the
\* redirect timeout that was pending never fires: the page is never sent to
\* a url by a timeout the user cancelled.
C24_CancelledRedirectNeverFires ==
    href # Null => ~href[1].cancelled

\* C29: isProcessingRef is set only while a captureAndScan invocation is
\* waiting for the OCR worker, so every invocation that set it has reset it
\* by the time it ends, a later tick can scan again, and at most one
\* recognition is in flight.
C29_GuardNeverSticks ==
    /\ recognizing <= 1
    /\ isProcessingRef => recognizing = 1

\* C30: after any sequence of key events manualCodeChars has at most six
\* characters, all of the alphabet, and a code handed to the lookup was
\* built from exactly six of them, so it satisfies isValidCode.
C30_ManualEntryInvariant ==
    /\ Len(manualCodeChars) <= ManualCodeLength
    /\ Range(manualCodeChars) \subseteq Alphabet
    /\ fullCode # <<>> => (Len(fullCode) = 10 /\ IsValidCode(fullCode))

\* six characters typed as a lower-case letter and a digit, and submitted
C30_Witness ==
    /\ Len(manualCodeChars) = ManualCodeLength
    /\ {"A", "7"} \subseteq Range(manualCodeChars)
    /\ fullCode = FullCode(manualCodeChars)

====
